---- MODULE Spec2Model ----
(***************************************************************************)
(* A model of minikerberos' credential-cache (ccache.py) and keytab        *)
(* (keytab.py) codecs and of the bridge between ccache credentials,        *)
(* Kerberos reply structures, kirbi blobs and hashcat hash strings.        *)
(*                                                                         *)
(* Conventions.  A byte string and a text string are both a sequence of    *)
(* numbers 0..255 (latin-1 maps byte b to code point b).  A call that can  *)
(* raise returns Ok(v) or Raise(e), e the name of the Python exception.    *)
(* A reader is a pair (data, pos): the bytes of the stream and the number  *)
(* of bytes already consumed; a parser returns OkAt(v, pos') or Raise(e).  *)
(* Python's None is the number None in integer fields and the record       *)
(* NoneObject in object fields.                                            *)
(***************************************************************************)
EXTENDS Integers, Sequences, FiniteSets, TLC

VARIABLES
    cc,     \* the CCACHE object the caller holds
    out,    \* what the last operation returned or raised
    buf,    \* the bytes handed to a parser
    kt      \* the Keytab object the caller holds

vars == <<cc, out, buf, kt>>

(***************************************************************************)
(* Bounds of the model.                                                    *)
(***************************************************************************)
MaxCreds == 2          \* credentials held by a container
MaxCipherLen == 17     \* bytes of ticket ciphertext
MaxComponents == 3     \* name components of a ticket's service name
MaxHole == 2           \* bytes of a keytab hole
MaxOctets == 3         \* bytes of a single octet string

(***************************************************************************)
(* Python values and results.                                              *)
(***************************************************************************)
None == -1
NoneObject == [none |-> TRUE]

Ok(v) == [ok |-> TRUE, val |-> v]
OkAt(v, p) == [ok |-> TRUE, val |-> v, pos |-> p]
Raise(e) == [ok |-> FALSE, exc |-> e]

\* Let(v, K) is K(v) with v evaluated once; Then(r, K) is r when r raised and
\* K(r) otherwise: the statement after a call that may raise
Let(v, K(_)) == CHOOSE y \in { K(x) : x \in {v} } : TRUE
Then(r, K(_)) == CHOOSE y \in { IF x.ok THEN K(x) ELSE x : x \in {r} } : TRUE

Min(a, b) == IF a < b THEN a ELSE b
Max(a, b) == IF a < b THEN b ELSE a

RECURSIVE Concat(_)
Concat(ss) == IF ss = <<>> THEN <<>> ELSE Head(ss) \o Concat(Tail(ss))

\* s[a:b] with Python's clamping of out-of-range and negative indices
PyIndex(s, i) == IF i < 0 THEN Max(Len(s) + i, 0) ELSE Min(i, Len(s))
PySlice(s, a, b) ==
    IF PyIndex(s, b) <= PyIndex(s, a) THEN <<>>
    ELSE SubSeq(s, PyIndex(s, a) + 1, PyIndex(s, b))
PySliceFrom(s, a) == PySlice(s, a, Len(s))     \* s[a:]
PySliceTo(s, b) == PySlice(s, 0, b)            \* s[:b]

(***************************************************************************)
(* struct.pack / struct.unpack, big-endian.                                *)
(***************************************************************************)
pack_B(v) == <<v % 256>>
pack_H(v) == <<(v \div 256) % 256, v % 256>>
pack_I(v) == <<(v \div 16777216) % 256, (v \div 65536) % 256,
               (v \div 256) % 256, v % 256>>

unpack_B(b) == b[1]
unpack_H(b) == b[1] * 256 + b[2]
\* '>I'.  The model's integers are 32-bit signed: an unsigned value of 2^31
\* or more is kept as 2^31 - 1.  Every such value is positive and larger
\* than any stream of the model, which is all the code uses of it.
unpack_I(b) ==
    IF b[1] >= 128 THEN 2147483647
    ELSE ((b[1] * 256 + b[2]) * 256 + b[3]) * 256 + b[4]
\* '>i', the signed reading of the same four bytes
unpack_i(b) ==
    IF b[1] >= 128
    THEN ((((b[1] - 128) * 256 + b[2]) * 256 + b[3]) * 256 + b[4]) - 2147483647 - 1
    ELSE ((b[1] * 256 + b[2]) * 256 + b[3]) * 256 + b[4]

(***************************************************************************)
(* Streams.                                                                *)
(***************************************************************************)
\* io.BytesIO.read(n): up to n bytes, fewer at the end of the stream
BytesIO_read(data, pos, n) ==
    IF n > Len(data) - pos
    THEN OkAt(SubSeq(data, pos + 1, Len(data)), Len(data))
    ELSE OkAt(SubSeq(data, pos + 1, pos + n), pos + n)

\* EOFReader.read(n): exactly n bytes, or EOFError
EOFReader_read(data, pos, n) ==
    Let(BytesIO_read(data, pos, n), LAMBDA result :
        IF Len(result.val) # n THEN Raise("EOFError") ELSE result)

(***************************************************************************)
(* utils.as_bytes / as_str / as_hex                                        *)
(***************************************************************************)
\* unicode.encode('latin-1'): code point c becomes byte c
as_bytes(s) == [i \in 1..Len(s) |-> s[i]]
\* str.decode('latin-1'): byte b becomes code point b
as_str(b) == [i \in 1..Len(b) |-> b[i]]
\* str.encode('hex'): two lower-case hex digits per byte
HexDigit(d) == IF d < 10 THEN 48 + d ELSE 87 + d
as_hex(b) == [i \in 1..(2 * Len(b)) |->
                 IF i % 2 = 1 THEN HexDigit(b[(i + 1) \div 2] \div 16)
                              ELSE HexDigit(b[(i + 1) \div 2] % 16)]

\* '%s' % n of a non-negative int n: its decimal digits
RECURSIVE int_str(_)
int_str(n) == IF n < 10 THEN <<48 + n>> ELSE int_str(n \div 10) \o <<48 + (n % 10)>>

(***************************************************************************)
(* ccache.py: the records of a credential cache and their codecs.          *)
(***************************************************************************)
\* CCACHEOctetString
CCACHEOctetString_empty == [length |-> 0, data |-> <<>>]
CCACHEOctetString_from_string(data) ==
    [length |-> Len(as_bytes(data)), data |-> as_bytes(data)]
CCACHEOctetString_from_asn1(data) == [length |-> Len(data), data |-> data]
CCACHEOctetString_to_asn1(o) == o.data
CCACHEOctetString_to_string(o) == as_str(o.data)
CCACHEOctetString_to_bytes(o) == pack_I(o.length) \o o.data

CCACHEOctetString_parse(data, pos) ==
    Then(EOFReader_read(data, pos, 4), LAMBDA l :
    Then(EOFReader_read(data, l.pos, unpack_I(l.val)), LAMBDA d :
    OkAt([length |-> unpack_I(l.val), data |-> d.val], d.pos)))

\* for i in range(n): items.append(Item.parse(reader)), for the three item
\* kinds a credential repeats
RECURSIVE ParseOctetStrings(_, _, _, _)
ParseOctetStrings(data, pos, n, acc) ==
    IF n <= 0 THEN OkAt(acc, pos)
    ELSE Then(CCACHEOctetString_parse(data, pos), LAMBDA o :
              ParseOctetStrings(data, o.pos, n - 1, Append(acc, o.val)))

\* CCACHEPrincipal
CCACHEPrincipal_dummy ==
    [name_type |-> 1, num_components |-> 1,
     realm |-> CCACHEOctetString_from_string(<<107, 101, 114, 98, 105, 46, 99, 111, 114, 112>>),
     components |-> <<CCACHEOctetString_from_string(<<107, 101, 114, 98, 105>>)>>]

CCACHEPrincipal_from_asn1(principal, realm) ==
    [name_type |-> principal.name_type,
     num_components |-> Len(principal.name_string),
     realm |-> CCACHEOctetString_from_string(realm),
     components |-> [i \in 1..Len(principal.name_string) |->
                        CCACHEOctetString_from_asn1(principal.name_string[i])]]

\* '-'.join(...)
RECURSIVE JoinDash(_)
JoinDash(ss) ==
    IF ss = <<>> THEN <<>>
    ELSE IF Len(ss) = 1 THEN ss[1]
    ELSE ss[1] \o <<45>> \o JoinDash(Tail(ss))

CCACHEPrincipal_to_string(p) ==
    JoinDash([i \in 1..Len(p.components) |-> CCACHEOctetString_to_string(p.components[i])])

CCACHEPrincipal_to_asn1(p) ==
    [principal |-> [name_type |-> p.name_type,
                    name_string |-> [i \in 1..Len(p.components) |->
                                        CCACHEOctetString_to_string(p.components[i])]],
     realm |-> CCACHEOctetString_to_string(p.realm)]

CCACHEPrincipal_to_bytes(p) ==
    pack_I(p.name_type) \o pack_I(Len(p.components))
    \o CCACHEOctetString_to_bytes(p.realm)
    \o Concat([i \in 1..Len(p.components) |-> CCACHEOctetString_to_bytes(p.components[i])])

CCACHEPrincipal_parse(data, pos) ==
    Then(EOFReader_read(data, pos, 8), LAMBDA h :
    Then(CCACHEOctetString_parse(data, h.pos), LAMBDA realm :
    Then(ParseOctetStrings(data, realm.pos, unpack_I(SubSeq(h.val, 5, 8)), <<>>),
         LAMBDA components :
    OkAt([name_type |-> unpack_I(SubSeq(h.val, 1, 4)),
          num_components |-> unpack_I(SubSeq(h.val, 5, 8)),
          realm |-> realm.val,
          components |-> components.val], components.pos))))

\* Keyblock
Keyblock_from_asn1(data) ==
    [keytype |-> data.keytype, etype |-> 0,
     keylen |-> Len(data.keyvalue), keyvalue |-> data.keyvalue]
Keyblock_to_asn1(k) == [keytype |-> k.keytype, keyvalue |-> k.keyvalue]
Keyblock_to_bytes(k) ==
    pack_H(k.keytype) \o pack_H(k.etype) \o pack_H(k.keylen) \o k.keyvalue
Keyblock_parse(data, pos) ==
    Then(EOFReader_read(data, pos, 6), LAMBDA h :
    Then(EOFReader_read(data, h.pos, unpack_H(SubSeq(h.val, 5, 6))), LAMBDA v :
    OkAt([keytype |-> unpack_H(SubSeq(h.val, 1, 2)),
          etype |-> unpack_H(SubSeq(h.val, 3, 4)),
          keylen |-> unpack_H(SubSeq(h.val, 5, 6)),
          keyvalue |-> v.val], v.pos)))

\* Times
Times_to_bytes(t) ==
    pack_I(t.authtime) \o pack_I(t.starttime) \o pack_I(t.endtime) \o pack_I(t.renew_till)
Times_parse(data, pos) ==
    Then(EOFReader_read(data, pos, 16), LAMBDA h :
    OkAt([authtime |-> unpack_I(SubSeq(h.val, 1, 4)),
          starttime |-> unpack_I(SubSeq(h.val, 5, 8)),
          endtime |-> unpack_I(SubSeq(h.val, 9, 12)),
          renew_till |-> unpack_I(SubSeq(h.val, 13, 16))], h.pos))

\* Address
Address_to_bytes(a) == pack_H(a.addrtype) \o CCACHEOctetString_to_bytes(a.addrdata)
Address_parse(data, pos) ==
    Then(EOFReader_read(data, pos, 2), LAMBDA h :
    Then(CCACHEOctetString_parse(data, h.pos), LAMBDA d :
    OkAt([addrtype |-> unpack_H(h.val), addrdata |-> d.val], d.pos)))

RECURSIVE ParseAddresses(_, _, _, _)
ParseAddresses(data, pos, n, acc) ==
    IF n <= 0 THEN OkAt(acc, pos)
    ELSE Then(Address_parse(data, pos), LAMBDA a :
              ParseAddresses(data, a.pos, n - 1, Append(acc, a.val)))

\* Authdata
Authdata_to_bytes(a) == pack_H(a.authtype) \o CCACHEOctetString_to_bytes(a.authdata)
Authdata_parse(data, pos) ==
    Then(EOFReader_read(data, pos, 2), LAMBDA h :
    Then(CCACHEOctetString_parse(data, h.pos), LAMBDA d :
    OkAt([authtype |-> unpack_H(h.val), authdata |-> d.val], d.pos)))

RECURSIVE ParseAuthdatas(_, _, _, _)
ParseAuthdatas(data, pos, n, acc) ==
    IF n <= 0 THEN OkAt(acc, pos)
    ELSE Then(Authdata_parse(data, pos), LAMBDA a :
              ParseAuthdatas(data, a.pos, n - 1, Append(acc, a.val)))

\* Credential
Credential_to_bytes(c) ==
    CCACHEPrincipal_to_bytes(c.client)
    \o CCACHEPrincipal_to_bytes(c.server)
    \o Keyblock_to_bytes(c.key)
    \o Times_to_bytes(c.time)
    \o pack_B(c.is_skey) \o pack_I(c.tktflags) \o pack_I(c.num_address)
    \o Concat([i \in 1..Len(c.addrs) |-> Address_to_bytes(c.addrs[i])])
    \o pack_I(c.num_authdata)
    \o Concat([i \in 1..Len(c.authdata) |-> Authdata_to_bytes(c.authdata[i])])
    \o CCACHEOctetString_to_bytes(c.ticket)
    \o CCACHEOctetString_to_bytes(c.second_ticket)

Credential_parse(data, pos) ==
    Then(CCACHEPrincipal_parse(data, pos), LAMBDA client :
    Then(CCACHEPrincipal_parse(data, client.pos), LAMBDA server :
    Then(Keyblock_parse(data, server.pos), LAMBDA key :
    Then(Times_parse(data, key.pos), LAMBDA time :
    Then(EOFReader_read(data, time.pos, 9), LAMBDA h :
    Then(ParseAddresses(data, h.pos, unpack_I(SubSeq(h.val, 6, 9)), <<>>), LAMBDA addrs :
    Then(EOFReader_read(data, addrs.pos, 4), LAMBDA n :
    Then(ParseAuthdatas(data, n.pos, unpack_I(n.val), <<>>), LAMBDA authdata :
    Then(CCACHEOctetString_parse(data, authdata.pos), LAMBDA ticket :
    Then(CCACHEOctetString_parse(data, ticket.pos), LAMBDA second_ticket :
    OkAt([client |-> client.val, server |-> server.val, key |-> key.val,
          time |-> time.val,
          is_skey |-> unpack_B(SubSeq(h.val, 1, 1)),
          tktflags |-> unpack_I(SubSeq(h.val, 2, 5)),
          num_address |-> unpack_I(SubSeq(h.val, 6, 9)), addrs |-> addrs.val,
          num_authdata |-> unpack_I(n.val), authdata |-> authdata.val,
          ticket |-> ticket.val, second_ticket |-> second_ticket.val],
         second_ticket.pos)))))))))))

\* Header
Header_to_bytes(h) == pack_H(h.tag) \o pack_H(Len(h.tagdata)) \o h.tagdata

\* Header.parse reads the block through a plain io.BytesIO
RECURSIVE Header_parse_loop(_, _, _)
Header_parse_loop(data, pos, headers) ==
    IF ~(pos < Len(data)) THEN Ok(headers)
    ELSE Let(BytesIO_read(data, pos, 4), LAMBDA h :
         IF Len(h.val) # 4 THEN Raise("struct.error")
         ELSE Let(BytesIO_read(data, h.pos, unpack_H(SubSeq(h.val, 3, 4))), LAMBDA d :
              Header_parse_loop(data, d.pos,
                  Append(headers, [tag |-> unpack_H(SubSeq(h.val, 1, 2)),
                                   taglen |-> unpack_H(SubSeq(h.val, 3, 4)),
                                   tagdata |-> d.val]))))

Header_parse(data) == Header_parse_loop(data, 0, <<>>)

\* CCACHE
CCACHE_new(empty) ==
    IF empty
    THEN [file_format_version |-> None, headers |-> <<>>,
          primary_principal |-> NoneObject, credentials |-> <<>>]
    ELSE [file_format_version |-> 1284,
          headers |-> <<[tag |-> 1, taglen |-> 8,
                         tagdata |-> <<0, 0, 0, 0, 0, 0, 0, 0>>]>>,
          primary_principal |-> CCACHEPrincipal_dummy,
          credentials |-> <<>>]

\* while True: try: credentials.append(Credential.parse(reader))
\*             except EOFError: break
RECURSIVE CCACHE_parse_credentials(_, _, _)
CCACHE_parse_credentials(data, pos, credentials) ==
    Let(Credential_parse(data, pos), LAMBDA c :
        IF c.ok THEN CCACHE_parse_credentials(data, c.pos, Append(credentials, c.val))
        ELSE IF c.exc = "EOFError" THEN OkAt(credentials, pos)
        ELSE c)

CCACHE_parse(data) ==
    Then(EOFReader_read(data, 0, 4), LAMBDA h :
    Then(EOFReader_read(data, h.pos, unpack_H(SubSeq(h.val, 3, 4))), LAMBDA block :
    Then(Header_parse(block.val), LAMBDA headers :
    Then(CCACHEPrincipal_parse(data, block.pos), LAMBDA primary_principal :
    Then(CCACHE_parse_credentials(data, primary_principal.pos, <<>>), LAMBDA credentials :
    Ok([file_format_version |-> unpack_H(SubSeq(h.val, 1, 2)),
        headers |-> headers.val,
        primary_principal |-> primary_principal.val,
        credentials |-> credentials.val]))))))

\* struct.pack('>H', None) raises struct.error; None has no to_bytes
CCACHE_to_bytes(c) ==
    IF c.file_format_version = None THEN Raise("struct.error")
    ELSE IF c.primary_principal = NoneObject THEN Raise("AttributeError")
    ELSE LET t_hdr == Concat([i \in 1..Len(c.headers) |-> Header_to_bytes(c.headers[i])])
         IN  Ok(pack_H(c.file_format_version)
                \o pack_H(Len(t_hdr)) \o t_hdr
                \o CCACHEPrincipal_to_bytes(c.primary_principal)
                \o Concat([i \in 1..Len(c.credentials) |->
                              Credential_to_bytes(c.credentials[i])]))

(***************************************************************************)
(* asn1_structs: the DER codec of a Ticket.  A ticket is the byte 97       *)
(* (APPLICATION 1), then etype, realm, service name and ciphertext, each   *)
(* string led by its length; load rejects every other byte string with     *)
(* ValueError.                                                             *)
(***************************************************************************)
Ticket_dump(t) ==
    <<97, t.enc_part.etype, Len(t.realm)>> \o t.realm
    \o <<t.sname.name_type, Len(t.sname.name_string)>>
    \o Concat([i \in 1..Len(t.sname.name_string) |->
                 <<Len(t.sname.name_string[i])>> \o t.sname.name_string[i]])
    \o <<Len(t.enc_part.cipher)>> \o t.enc_part.cipher

RECURSIVE Ticket_load_names(_, _, _, _)
Ticket_load_names(data, pos, n, acc) ==
    IF n = 0 THEN OkAt(acc, pos)
    ELSE IF pos + 1 > Len(data) \/ pos + 1 + data[pos + 1] > Len(data)
    THEN Raise("ValueError")
    ELSE Ticket_load_names(data, pos + 1 + data[pos + 1], n - 1,
                           Append(acc, SubSeq(data, pos + 2, pos + 1 + data[pos + 1])))

Ticket_load(data) ==
    IF Len(data) < 3 \/ data[1] # 97 \/ 3 + data[3] + 2 > Len(data)
    THEN Raise("ValueError")
    ELSE LET p == 3 + data[3]
             names == Ticket_load_names(data, p + 2, data[p + 2], <<>>)
         IN  IF ~names.ok THEN names
             ELSE IF names.pos + 1 > Len(data)
                     \/ names.pos + 1 + data[names.pos + 1] # Len(data)
             THEN Raise("ValueError")
             ELSE Ok([tkt_vno |-> 5,
                      realm |-> SubSeq(data, 4, p),
                      sname |-> [name_type |-> data[p + 1], name_string |-> names.val],
                      enc_part |-> [etype |-> data[2],
                                    cipher |-> SubSeq(data, names.pos + 2, Len(data))]])

(***************************************************************************)
(* Text used by the inputs of the model.                                   *)
(***************************************************************************)
S_CORP == <<67, 79, 82, 80>>                    \* "CORP"
S_corp == <<99, 111, 114, 112>>                 \* "corp"
S_krbtgt == <<107, 114, 98, 116, 103, 116>>     \* "krbtgt"
S_KrbTgt == <<75, 114, 98, 84, 103, 116>>       \* "KrbTgt"
S_krb == <<107, 114, 98>>                       \* "krb"
S_tgt == <<116, 103, 116>>                      \* "tgt"
S_cifs == <<99, 105, 102, 115>>                 \* "cifs"
S_fs == <<102, 115>>                            \* "fs"
S_al == <<97, 108>>                             \* "al"

\* the first n of the bytes 1, 2, 3, ...
Bytes1To(n) == [i \in 1..n |-> i]

(***************************************************************************)
(* Parsing a credential-cache file.                                        *)
(***************************************************************************)
\* what an operation op, called with arg, returned or raised
NoResult == [op |-> "none", arg |-> 0, ok |-> TRUE, exc |-> "", val |-> <<>>]
ResultOf(op, arg, r) ==
    Let(r, LAMBDA x : [op |-> op, arg |-> arg, ok |-> x.ok,
                       exc |-> IF x.ok THEN "" ELSE x.exc,
                       val |-> IF x.ok THEN x.val ELSE <<>>])
Result(op, r) == ResultOf(op, 0, r)

\* the i-th credential of the sample file: one with an address, an authdata
\* entry and a configuration ticket, the next with a real ticket
FileCredential(i) ==
    [client |-> CCACHEPrincipal_from_asn1([name_type |-> 1, name_string |-> <<S_al>>], S_CORP),
     server |-> CCACHEPrincipal_from_asn1(
                    [name_type |-> 2, name_string |-> <<S_krbtgt, S_CORP>>], S_CORP),
     key |-> [keytype |-> 23, etype |-> 0, keylen |-> 2, keyvalue |-> <<i, 200>>],
     time |-> [authtime |-> i, starttime |-> 2, endtime |-> 3, renew_till |-> 0],
     is_skey |-> 0,
     tktflags |-> 1088487424,
     num_address |-> i % 2,
     addrs |-> IF i % 2 = 1
               THEN <<[addrtype |-> 2,
                       addrdata |-> CCACHEOctetString_from_asn1(<<10, 0, 0, i>>)]>>
               ELSE <<>>,
     num_authdata |-> i % 2,
     authdata |-> IF i % 2 = 1
                  THEN <<[authtype |-> 1,
                          authdata |-> CCACHEOctetString_from_asn1(<<i>>)]>>
                  ELSE <<>>,
     ticket |-> IF i % 2 = 1
                THEN CCACHEOctetString_from_asn1(<<121, 101, 115>>)
                ELSE CCACHEOctetString_from_asn1(Ticket_dump(
                        [tkt_vno |-> 5, realm |-> S_CORP,
                         sname |-> [name_type |-> 2, name_string |-> <<S_krbtgt, S_CORP>>],
                         enc_part |-> [etype |-> 23, cipher |-> Bytes1To(i)]])),
     second_ticket |-> CCACHEOctetString_empty]

\* header blocks: the default header, none, two headers, one whose data is
\* shorter than its declared length, one followed by two stray bytes
DefaultHeaderBytes == Header_to_bytes(CCACHE_new(FALSE).headers[1])
HeaderBlocks ==
    { DefaultHeaderBytes,
      <<>>,
      DefaultHeaderBytes \o <<0, 2, 0, 1, 7>>,
      <<0, 1, 0, 8, 0, 0, 0>>,
      DefaultHeaderBytes \o <<0, 2>> }

FileBody ==
    CCACHEPrincipal_to_bytes(CCACHEPrincipal_dummy)
    \o Concat([i \in 1..MaxCreds |-> Credential_to_bytes(FileCredential(i))])

CCACHEFile(block) == pack_H(1284) \o pack_H(Len(block)) \o block \o FileBody

\* every prefix of a sample file: the file cut at any byte
CCACHEFiles ==
    UNION { { SubSeq(CCACHEFile(block), 1, k) : k \in 0..Len(CCACHEFile(block)) } :
            block \in HeaderBlocks }

InitParse ==
    /\ buf \in CCACHEFiles
    /\ cc = CCACHE_new(TRUE)
    /\ out = NoResult
    /\ kt = NoneObject

\* CCACHE.parse(io.BytesIO(buf))
Parse ==
    /\ out.op = "none"
    /\ \E r \in {CCACHE_parse(buf)} :
           /\ cc' = IF r.ok THEN r.val ELSE cc
           /\ out' = [Result("parse", r) EXCEPT !.val = <<>>]
    /\ UNCHANGED <<buf, kt>>

\* to_bytes() of the container that parse returned
Reserialize ==
    /\ out.op = "parse"
    /\ out.ok
    /\ out' = Result("to_bytes", CCACHE_to_bytes(cc))
    /\ UNCHANGED <<cc, buf, kt>>

NextParse == Parse \/ Reserialize

SpecParse == InitParse /\ [][NextParse]_vars

\* where the first credential of a file starts, when the version, the header
\* block and the primary principal parse
ParsePreamble(data) ==
    Then(EOFReader_read(data, 0, 4), LAMBDA h :
    Then(EOFReader_read(data, h.pos, unpack_H(SubSeq(h.val, 3, 4))), LAMBDA block :
    Then(Header_parse(block.val), LAMBDA headers :
    Then(CCACHEPrincipal_parse(data, block.pos), LAMBDA pp :
    OkAt(<<>>, pp.pos)))))

\* the credentials that are whole in data from pos on, and where they end
RECURSIVE WholeCredentials(_, _, _)
WholeCredentials(data, pos, acc) ==
    Let(Credential_parse(data, pos), LAMBDA c :
        IF c.ok THEN WholeCredentials(data, c.pos, Append(acc, c.val))
        ELSE OkAt(acc, pos))

\* C1 (as claimed): when the file ends exactly where a credential would
\* start, parse returns the container with every credential read so far;
\* when it ends inside a credential, parse raises and returns no container.
C1_CleanEndOrFatalTruncation ==
    out.op = "parse" =>
        \A p \in {ParsePreamble(buf)} :
            p.ok =>
                \A w \in {WholeCredentials(buf, p.pos, <<>>)} :
                    IF w.pos = Len(buf)
                    THEN out.ok /\ cc.credentials = w.val
                    ELSE ~out.ok

\* C3 (as claimed): to_bytes of a freshly parsed container is the parsed
\* byte string.
C3_ParseThenToBytesIsIdentity ==
    out.op = "to_bytes" => out.ok /\ out.val = buf

(***************************************************************************)
(* asn1_structs and utils: what the bridge uses of the ASN.1 layer.        *)
(* A datetime is the days and seconds since the epoch; the native form of  *)
(* an absent OPTIONAL field is None.                                       *)
(***************************************************************************)
\* utils.dt_to_kerbtime
dt_to_kerbtime(dt) ==
    IF dt = NoneObject THEN Raise("TypeError")
    ELSE Ok(dt.microseconds \div 1000000 + (dt.seconds + dt.days * 24 * 3600))

\* datetime.datetime.fromtimestamp
datetime_fromtimestamp(t) ==
    [days |-> t \div 86400, seconds |-> t % 86400, microseconds |-> 0]

\* TicketFlags(flags).cast(core.IntegerBitString).native: flag number b of
\* the 32-bit string is bit 31 - b of the integer
RECURSIVE TwoTo(_)
TwoTo(n) == IF n = 0 THEN 1 ELSE 2 * TwoTo(n - 1)
RECURSIVE TicketFlags_to_int(_)
TicketFlags_to_int(flags) ==
    IF flags = {} THEN 0
    ELSE LET b == CHOOSE x \in flags : TRUE
         IN  TwoTo(31 - b) + TicketFlags_to_int(flags \ {b})
\* core.IntegerBitString(n).cast(TicketFlags)
TicketFlags_from_int(n) == { b \in 1..31 : (n \div TwoTo(31 - b)) % 2 = 1 }

\* EncKrbCredPart(...).dump() and EncKrbCredPart.load(...).native
EncKrbCredPart_dump(v) == [der |-> "EncKrbCredPart", value |-> v]
EncKrbCredPart_load(data) == data.value

\* unicode.upper() and unicode.lower() on ASCII text
str_upper(s) == [i \in 1..Len(s) |-> IF s[i] \in 97..122 THEN s[i] - 32 ELSE s[i]]
str_lower(s) == [i \in 1..Len(s) |-> IF s[i] \in 65..90 THEN s[i] + 32 ELSE s[i]]

\* s.find(sub): the first index at which sub occurs in s, or -1
str_find(s, sub) ==
    LET hits == { i \in 0..(Len(s) - Len(sub)) : SubSeq(s, i + 1, i + Len(sub)) = sub }
    IN  IF hits = {} THEN -1 ELSE CHOOSE i \in hits : \A j \in hits : i <= j

(***************************************************************************)
(* ccache.py: building credentials from Kerberos replies.                  *)
(***************************************************************************)
Times_from_asn1(enc_as_rep_part) ==
    Then(IF enc_as_rep_part.authtime # NoneObject
         THEN dt_to_kerbtime(enc_as_rep_part.authtime) ELSE Ok(0), LAMBDA authtime :
    Then(IF enc_as_rep_part.starttime # NoneObject
         THEN dt_to_kerbtime(enc_as_rep_part.starttime) ELSE Ok(0), LAMBDA starttime :
    Then(dt_to_kerbtime(enc_as_rep_part.endtime), LAMBDA endtime :
    Then(dt_to_kerbtime(enc_as_rep_part.renew_till), LAMBDA renew_till :
    Ok([authtime |-> authtime.val, starttime |-> starttime.val,
        endtime |-> endtime.val, renew_till |-> renew_till.val])))))

\* the credential add_tgt, add_tgs and add_kirbi assemble
NewCredential(client, server, time, key, flags, ticket) ==
    [client |-> client, server |-> server, key |-> Keyblock_from_asn1(key),
     time |-> time, is_skey |-> 0,
     tktflags |-> TicketFlags_to_int(flags),
     num_address |-> 0, addrs |-> <<>>,
     num_authdata |-> 0, authdata |-> <<>>,
     ticket |-> CCACHEOctetString_from_asn1(Ticket_dump(ticket)),
     second_ticket |-> CCACHEOctetString_empty]

\* CCACHE.add_tgt(as_rep, enc_as_rep_part, override_pp): returns the
\* container as the call leaves it, and what the call raised
CCACHE_add_tgt(c, as_rep, enc_as_rep_part, override_pp) ==
    Let(CCACHEPrincipal_from_asn1(as_rep.cname, as_rep.crealm), LAMBDA client :
    Let(Times_from_asn1(enc_as_rep_part), LAMBDA time :
        [cc |-> [c EXCEPT !.primary_principal = IF override_pp = TRUE THEN client ELSE @,
                          !.credentials =
                              IF time.ok
                              THEN Append(@, NewCredential(client,
                                      CCACHEPrincipal_from_asn1(enc_as_rep_part.sname,
                                                                enc_as_rep_part.srealm),
                                      time.val, enc_as_rep_part.key,
                                      enc_as_rep_part.flags, as_rep.ticket))
                              ELSE @],
         exc |-> IF time.ok THEN "" ELSE time.exc]))

\* add_tgs putting the credential in front of the list, which C16 tells
\* from the code
CCACHE_add_tgs_in_front(c, tgs_rep, enc_tgs_rep_part, override_pp) ==
    Let(CCACHEPrincipal_from_asn1(tgs_rep.cname, tgs_rep.crealm), LAMBDA client :
    Let(Times_from_asn1(enc_tgs_rep_part), LAMBDA time :
        [cc |-> [c EXCEPT !.primary_principal = IF override_pp = TRUE THEN client ELSE @,
                          !.credentials =
                              IF time.ok
                              THEN <<NewCredential(client,
                                      CCACHEPrincipal_from_asn1(enc_tgs_rep_part.sname,
                                                                enc_tgs_rep_part.srealm),
                                      time.val, enc_tgs_rep_part.key,
                                      enc_tgs_rep_part.flags, tgs_rep.ticket)>> \o @
                              ELSE @],
         exc |-> IF time.ok THEN "" ELSE time.exc]))

\* CCACHE.add_tgs(tgs_rep, enc_tgs_rep_part, override_pp)
CCACHE_add_tgs(c, tgs_rep, enc_tgs_rep_part, override_pp) ==
    Let(CCACHEPrincipal_from_asn1(tgs_rep.cname, tgs_rep.crealm), LAMBDA client :
    Let(Times_from_asn1(enc_tgs_rep_part), LAMBDA time :
        [cc |-> [c EXCEPT !.primary_principal = IF override_pp = TRUE THEN client ELSE @,
                          !.credentials =
                              IF time.ok
                              THEN Append(@, NewCredential(client,
                                      CCACHEPrincipal_from_asn1(enc_tgs_rep_part.sname,
                                                                enc_tgs_rep_part.srealm),
                                      time.val, enc_tgs_rep_part.key,
                                      enc_tgs_rep_part.flags, tgs_rep.ticket))
                              ELSE @],
         exc |-> IF time.ok THEN "" ELSE time.exc]))

\* a server name trimmed from two components on, which C14 tells from the
\* code
KirbiServerName_from_two(ticket_info) ==
    IF Len(ticket_info.sname.name_string) > 1
       /\ str_upper(ticket_info.sname.name_string[Len(ticket_info.sname.name_string)])
            = str_upper(ticket_info.srealm)
    THEN [ticket_info.sname EXCEPT !.name_string = PySliceTo(@, -1)]
    ELSE ticket_info.sname

\* the server name add_kirbi keeps: the last component is dropped when there
\* are more than two and it is the realm, ignoring case
KirbiServerName(ticket_info) ==
    IF Len(ticket_info.sname.name_string) > 2
       /\ str_upper(ticket_info.sname.name_string[Len(ticket_info.sname.name_string)])
            = str_upper(ticket_info.srealm)
    THEN [ticket_info.sname EXCEPT !.name_string = PySliceTo(@, -1)]
    ELSE ticket_info.sname

\* CCACHE.add_kirbi(krbcred, override_pp)
CCACHE_add_kirbi(c, krbcred, override_pp) ==
    Let(EncKrbCredPart_load(krbcred.enc_part.cipher).ticket_info[1], LAMBDA ticket_info :
    Let(CCACHEPrincipal_from_asn1(ticket_info.pname, ticket_info.prealm), LAMBDA client :
    Let(Times_from_asn1(ticket_info), LAMBDA time :
        [cc |-> [c EXCEPT !.primary_principal = IF override_pp = TRUE THEN client ELSE @,
                          !.credentials =
                              IF time.ok
                              THEN Append(@, NewCredential(client,
                                      CCACHEPrincipal_from_asn1(KirbiServerName(ticket_info),
                                                                ticket_info.srealm),
                                      time.val, ticket_info.key,
                                      ticket_info.flags, krbcred.tickets[1]))
                              ELSE @],
         exc |-> IF time.ok THEN "" ELSE time.exc])))

\* CCACHE.from_kirbi(kirbidata), kirbidata the DER of krbcred
CCACHE_from_kirbi(krbcred) == CCACHE_add_kirbi(CCACHE_new(FALSE), krbcred, TRUE)

(***************************************************************************)
(* The replies a caller hands to a container.                              *)
(***************************************************************************)
Datetime(d, sec) == [days |-> d, seconds |-> sec, microseconds |-> 0]

PrincipalName(t, names) == [name_type |-> t, name_string |-> names]

TicketOf(etype, names, n) ==
    [tkt_vno |-> 5, realm |-> S_CORP,
     sname |-> PrincipalName(2, names),
     enc_part |-> [etype |-> etype, cipher |-> Bytes1To(n)]]

EncPart(names, authtime, starttime, renew_till) ==
    [sname |-> PrincipalName(2, names), srealm |-> S_CORP,
     key |-> [keytype |-> 18, keyvalue |-> <<7, 200, 9>>],
     flags |-> {1, 8},
     authtime |-> authtime, starttime |-> starttime,
     endtime |-> Datetime(1, 0), renew_till |-> renew_till]

\* every time present; the optional authtime and starttime absent; the
\* renew-till absent
EncParts(names) ==
    { EncPart(names, Datetime(0, 5), Datetime(0, 6), Datetime(2, 0)),
      EncPart(names, NoneObject, NoneObject, Datetime(0, 7)),
      EncPart(names, Datetime(0, 5), Datetime(0, 6), NoneObject) }

AsReps ==
    { [cname |-> PrincipalName(1, <<S_al>>), crealm |-> S_CORP,
       ticket |-> TicketOf(18, <<S_krbtgt, S_CORP>>, 2)] }
TgsReps ==
    { [cname |-> PrincipalName(1, <<S_al, S_fs>>), crealm |-> S_corp,
       ticket |-> TicketOf(23, <<S_cifs, S_fs>>, 3)] }

KrbCredInfo(names, authtime, renew_till) ==
    [pname |-> PrincipalName(1, <<S_fs>>), prealm |-> S_CORP]
    @@ EncPart(names, authtime, Datetime(0, 6), renew_till)

KrbCred(info) ==
    [tickets |-> <<TicketOf(23, info.sname.name_string, 1)>>,
     enc_part |-> [etype |-> 0,
                   cipher |-> EncKrbCredPart_dump([ticket_info |-> <<info>>])]]

\* service names of three components ending in the realm (in another case)
\* or not, and of two components ending in the realm
KrbCreds ==
    { KrbCred(KrbCredInfo(<<S_cifs, S_fs, S_corp>>, Datetime(0, 5), Datetime(2, 0))),
      KrbCred(KrbCredInfo(<<S_cifs, S_fs, S_al>>, NoneObject, Datetime(2, 0))),
      KrbCred(KrbCredInfo(<<S_krbtgt, S_CORP>>, Datetime(0, 5), Datetime(2, 0))),
      KrbCred(KrbCredInfo(<<S_cifs, S_corp, S_CORP>>, Datetime(0, 5), NoneObject)) }

\* the override_pp argument of a call: given, or left to the default
OverrideArgs == {"omitted", "True", "False"}
OverrideArg(arg, default) == IF arg = "omitted" THEN default ELSE arg = "True"
add_tgt_override_pp == TRUE
\* add_tgs overriding by default, which C13 tells from the code
add_tgs_override_pp_as_add_tgt == TRUE
add_tgs_override_pp == FALSE
add_kirbi_override_pp == TRUE

(***************************************************************************)
(* A container in memory: construction, the add operations, to_bytes.      *)
(***************************************************************************)
Init ==
    /\ cc \in {CCACHE_new(FALSE), CCACHE_new(TRUE)}
    /\ out = NoResult
    /\ buf = <<>>
    /\ kt = NoneObject

\* the arguments of an add call: the flag as written by the caller, the
\* client name and realm, and the structure the times and the server name
\* are taken from
Call(arg, cname, crealm, enc) ==
    [override_pp |-> arg, cname |-> cname, crealm |-> crealm, enc |-> enc]

Added(op, call, r) ==
    /\ cc' = r.cc
    /\ out' = [op |-> op, arg |-> call, ok |-> r.exc = "", exc |-> r.exc, val |-> <<>>]
    /\ UNCHANGED <<buf, kt>>

AddTgt ==
    /\ Len(cc.credentials) < MaxCreds
    /\ \E as_rep \in AsReps, enc \in EncParts(<<S_krbtgt, S_CORP>>), arg \in OverrideArgs :
           Added("add_tgt", Call(arg, as_rep.cname, as_rep.crealm, enc),
                 CCACHE_add_tgt(cc, as_rep, enc, OverrideArg(arg, add_tgt_override_pp)))

AddTgs ==
    /\ Len(cc.credentials) < MaxCreds
    /\ \E tgs_rep \in TgsReps, enc \in EncParts(<<S_cifs, S_fs>>), arg \in OverrideArgs :
           Added("add_tgs", Call(arg, tgs_rep.cname, tgs_rep.crealm, enc),
                 CCACHE_add_tgs(cc, tgs_rep, enc, OverrideArg(arg, add_tgs_override_pp)))

\* the ticket-info entry of a KRB-CRED
KrbCredTicketInfo(krbcred) == EncKrbCredPart_load(krbcred.enc_part.cipher).ticket_info[1]

AddKirbi ==
    /\ Len(cc.credentials) < MaxCreds
    /\ \E krbcred \in KrbCreds, arg \in OverrideArgs :
           Added("add_kirbi",
                 Call(arg, KrbCredTicketInfo(krbcred).pname,
                      KrbCredTicketInfo(krbcred).prealm, KrbCredTicketInfo(krbcred)),
                 CCACHE_add_kirbi(cc, krbcred, OverrideArg(arg, add_kirbi_override_pp)))

\* cc = CCACHE.from_kirbi(kirbidata)
FromKirbi ==
    /\ cc.credentials = <<>>
    /\ \E krbcred \in KrbCreds :
           Added("from_kirbi",
                 Call("omitted", KrbCredTicketInfo(krbcred).pname,
                      KrbCredTicketInfo(krbcred).prealm, KrbCredTicketInfo(krbcred)),
                 CCACHE_from_kirbi(krbcred))

\* cc.to_bytes()
ToBytes ==
    /\ out.op # "to_bytes"
    /\ out' = Result("to_bytes", CCACHE_to_bytes(cc))
    /\ UNCHANGED <<cc, buf, kt>>

\* CCACHE.parse(io.BytesIO(cc.to_bytes()))
RoundTrip ==
    /\ out.op = "to_bytes"
    /\ out.ok
    /\ out' = Result("parse", CCACHE_parse(out.val))
    /\ UNCHANGED <<cc, buf, kt>>

Next == AddTgt \/ AddTgs \/ AddKirbi \/ FromKirbi \/ ToBytes \/ RoundTrip

Spec == Init /\ [][Next]_vars

\* C2 (as claimed): a container built in memory, with or without headers and
\* credentials, serializes, and parsing the bytes gives the container back
\* field for field.
C2_BuiltRoundTrip ==
    /\ out.op = "to_bytes" => out.ok
    /\ out.op = "parse" => out.ok /\ out.val = cc

(***************************************************************************)
(* keytab.py                                                               *)
(***************************************************************************)
\* struct.pack('>i', v)
pack_i(v) ==
    IF v >= 0 THEN pack_I(v)
    ELSE <<255 - (((-v - 1) \div 16777216) % 256), 255 - (((-v - 1) \div 65536) % 256),
           255 - (((-v - 1) \div 256) % 256), 255 - ((-v - 1) % 256)>>

\* a Python value where the code may hold an int or something else
PyInt(n) == [type |-> "int", v |-> n]
PyTuple(items) == [type |-> "tuple", v |-> items]

\* io.BytesIO.read(n) of a value n: a size that is no integer is a TypeError
BytesIO_read_value(data, pos, n) ==
    IF n.type # "int" THEN Raise("TypeError") ELSE BytesIO_read(data, pos, n.v)

\* struct.unpack(fmt, b) of a string b read from a plain stream: b must have
\* the size the format needs
unpack_exact(b, size) == IF Len(b) # size THEN Raise("struct.error") ELSE Ok(b)

\* KeytabOctetString
KeytabOctetString_from_string(data) ==
    [length |-> Len(as_bytes(data)), data |-> as_bytes(data)]
KeytabOctetString_to_bytes(o) == pack_H(Len(as_bytes(o.data))) \o as_bytes(o.data)

\* o.length = struct.unpack('>H', reader.read(2)) is the 1-tuple unpack
\* returns, and o.data = reader.read(o.length) reads that many bytes
KeytabOctetString_parse(data, pos) ==
    Let(BytesIO_read(data, pos, 2), LAMBDA l :
    Then(unpack_exact(l.val, 2), LAMBDA b :
    Let(PyTuple(<<unpack_H(b.val)>>), LAMBDA length :
    Then(BytesIO_read_value(data, l.pos, length), LAMBDA d :
    OkAt([length |-> length, data |-> d.val], d.pos)))))

RECURSIVE ParseKeytabOctetStrings(_, _, _, _)
ParseKeytabOctetStrings(data, pos, n, acc) ==
    IF n <= 0 THEN OkAt(acc, pos)
    ELSE Then(KeytabOctetString_parse(data, pos), LAMBDA o :
              ParseKeytabOctetStrings(data, o.pos, n - 1, Append(acc, o.val)))

\* KeytabPrincipal
KeytabPrincipal_to_bytes(p) ==
    pack_H(Len(p.components))
    \o KeytabOctetString_to_bytes(p.realm)
    \o Concat([i \in 1..Len(p.components) |-> KeytabOctetString_to_bytes(p.components[i])])
    \o pack_I(p.name_type)

KeytabPrincipal_from_buffer(data, pos) ==
    Let(BytesIO_read(data, pos, 2), LAMBDA n :
    Then(unpack_exact(n.val, 2), LAMBDA nb :
    Then(KeytabOctetString_parse(data, n.pos), LAMBDA realm :
    Then(ParseKeytabOctetStrings(data, realm.pos, unpack_H(nb.val), <<>>), LAMBDA components :
    Let(BytesIO_read(data, components.pos, 4), LAMBDA t :
    Then(unpack_exact(t.val, 4), LAMBDA tb :
    OkAt([num_components |-> unpack_H(nb.val), name_type |-> unpack_I(tb.val),
          realm |-> realm.val, components |-> components.val], t.pos)))))))

\* KeytabEntry
KeytabEntry_to_bytes(e) ==
    KeytabPrincipal_to_bytes(e.principal)
    \o pack_I(e.timestamp) \o pack_B(e.key_version)
    \o pack_H(e.enctype) \o pack_H(e.key_length) \o e.key_contents

KeytabEntry_from_buffer(data, pos) ==
    Then(KeytabPrincipal_from_buffer(data, pos), LAMBDA principal :
    Let(BytesIO_read(data, principal.pos, 9), LAMBDA h :
    Then(unpack_exact(h.val, 9), LAMBDA hb :
    Let(BytesIO_read(data, h.pos, unpack_H(SubSeq(hb.val, 8, 9))), LAMBDA key :
    OkAt([principal |-> principal.val,
          timestamp |-> unpack_I(SubSeq(hb.val, 1, 4)),
          key_version |-> unpack_B(SubSeq(hb.val, 5, 5)),
          enctype |-> unpack_H(SubSeq(hb.val, 6, 7)),
          key_length |-> unpack_H(SubSeq(hb.val, 8, 9)),
          key_contents |-> key.val], key.pos)))))

KeytabEntry_from_bytes(data) == KeytabEntry_from_buffer(data, 0)

\* Keytab
Keytab_new == [krb5 |-> 5, version |-> 2, entries |-> <<>>]

\* n.to_bytes of an int n: a Python 2 int has no such attribute
int_to_bytes_attribute(n) == Raise("AttributeError")

\* b''.join(items): every item must be a byte string
bytes_join(items) ==
    IF \E i \in 1..Len(items) : items[i].type # "bytes" THEN Raise("TypeError")
    ELSE Ok(Concat([i \in 1..Len(items) |-> items[i].v]))

\* entries.append(len(data)); entries.append(data), for each entry
RECURSIVE Keytab_to_bytes_items(_)
Keytab_to_bytes_items(entries) ==
    IF entries = <<>> THEN <<>>
    ELSE <<PyInt(Len(KeytabEntry_to_bytes(Head(entries)))),
           [type |-> "bytes", v |-> KeytabEntry_to_bytes(Head(entries))]>>
         \o Keytab_to_bytes_items(Tail(entries))

Keytab_to_bytes(k) ==
    Then(int_to_bytes_attribute(k.krb5), LAMBDA major :
    Then(int_to_bytes_attribute(k.version), LAMBDA minor :
    bytes_join(<<[type |-> "bytes", v |-> pack_B(major.val) \o pack_B(minor.val)]>>
               \o Keytab_to_bytes_items(k.entries))))

\* the loop of Keytab.from_buffer: the size is read with '>I'; only the read
\* of the size is inside the try
RECURSIVE Keytab_from_buffer_loop(_, _, _, _)
Keytab_from_buffer_loop(data, pos, i, entries) ==
    Let(EOFReader_read(data, pos, 4), LAMBDA s :
    Let(IF s.ok THEN unpack_I(s.val) ELSE 0, LAMBDA entry_size :
        IF entry_size = 0 THEN Ok(entries)
        ELSE IF entry_size < 0
        THEN Keytab_from_buffer_loop(data, s.pos, i + entry_size * (-1), entries)
        ELSE Then(EOFReader_read(data, s.pos, entry_size), LAMBDA d :
             Then(KeytabEntry_from_bytes(d.val), LAMBDA e :
             Keytab_from_buffer_loop(data, d.pos, i + entry_size, Append(entries, e.val))))))

Keytab_from_buffer(data) ==
    Then(EOFReader_read(data, 0, 2), LAMBDA h :
    Then(Keytab_from_buffer_loop(data, h.pos, 0, <<>>), LAMBDA entries :
    Ok([krb5 |-> unpack_B(SubSeq(h.val, 1, 1)),
        version |-> unpack_B(SubSeq(h.val, 2, 2)),
        entries |-> entries.val])))

Keytab_from_bytes(data) == Keytab_from_buffer(data)

(***************************************************************************)
(* Keytab files and keytabs in memory.                                     *)
(***************************************************************************)
KeytabEntryOf(i) ==
    [principal |-> [num_components |-> 1, name_type |-> 1,
                    realm |-> KeytabOctetString_from_string(S_CORP),
                    components |-> <<KeytabOctetString_from_string(S_al)>>],
     timestamp |-> 100 + i, key_version |-> i, enctype |-> 23,
     key_length |-> 2, key_contents |-> <<i, 200>>]

\* the items of a file: an entry, a hole of n bytes, the end marker
EntryItem(i) == [kind |-> "entry", n |-> i]
HoleItem(n) == [kind |-> "hole", n |-> n]
EndItem == [kind |-> "end", n |-> 0]

KeytabItemBytes(item) ==
    IF item.kind = "entry"
    THEN pack_i(Len(KeytabEntry_to_bytes(KeytabEntryOf(item.n))))
         \o KeytabEntry_to_bytes(KeytabEntryOf(item.n))
    ELSE IF item.kind = "hole"
    THEN pack_i(-item.n) \o [j \in 1..item.n |-> 255]
    ELSE pack_i(0)

KeytabFile(items) ==
    <<5, 2>> \o Concat([j \in 1..Len(items) |-> KeytabItemBytes(items[j])])

KeytabItemLists ==
    { <<>>, <<EndItem>>, <<EntryItem(1)>>, <<EntryItem(1), EntryItem(2), EndItem>>,
      <<EntryItem(1), EndItem, EntryItem(2)>> }
    \cup { <<HoleItem(n)>> : n \in 1..MaxHole }
    \cup { <<EntryItem(1), HoleItem(n), EntryItem(2)>> : n \in 1..MaxHole }

\* every prefix of a sample file
KeytabFiles ==
    UNION { { SubSeq(KeytabFile(items), 1, k) : k \in 0..Len(KeytabFile(items)) } :
            items \in KeytabItemLists }

\* the entries a file holds: those before the end marker
RECURSIVE RealEntries(_)
RealEntries(items) ==
    IF items = <<>> \/ Head(items).kind = "end" THEN <<>>
    ELSE IF Head(items).kind = "entry"
    THEN <<KeytabEntryOf(Head(items).n)>> \o RealEntries(Tail(items))
    ELSE RealEntries(Tail(items))

InitKeytab ==
    /\ buf \in KeytabFiles
    /\ kt = Keytab_new
    /\ out = NoResult
    /\ cc = CCACHE_new(TRUE)

\* kt = Keytab.from_bytes(buf)
KeytabFromBytes ==
    /\ out.op = "none"
    /\ \E r \in {Keytab_from_bytes(buf)} :
           /\ kt' = IF r.ok THEN r.val ELSE kt
           /\ out' = [Result("from_bytes", r) EXCEPT !.val = <<>>]
    /\ UNCHANGED <<cc, buf>>

\* kt.entries.append(entry)
KeytabAppend ==
    /\ out.op # "to_bytes"
    /\ Len(kt.entries) < MaxCreds
    /\ \E i \in 1..MaxCreds : kt' = [kt EXCEPT !.entries = Append(@, KeytabEntryOf(i))]
    /\ UNCHANGED <<cc, out, buf>>

\* kt.to_bytes()
KeytabToBytes ==
    /\ out.op # "to_bytes"
    /\ out' = Result("to_bytes", Keytab_to_bytes(kt))
    /\ UNCHANGED <<cc, buf, kt>>

NextKeytab == KeytabFromBytes \/ KeytabAppend \/ KeytabToBytes

SpecKeytab == InitKeytab /\ [][NextKeytab]_vars

\* C4 (as claimed): a size of 0 ends the entries, a positive size is one
\* entry, a negative size is a hole whose bytes are skipped: a file parses to
\* the entries it holds before the end marker, and entry, hole, entry to both
\* entries.
C4_EntriesHolesAndEnd ==
    out.op = "from_bytes" =>
        \A items \in KeytabItemLists :
            buf = KeytabFile(items) => out.ok /\ kt.entries = RealEntries(items)

\* C5 (as claimed): a keytab of version (5, 2) with any entries serializes,
\* and from_bytes of the bytes gives the keytab back field for field; so does
\* a keytab parsed from a file with a hole and an entry.
C5_KeytabRoundTrip ==
    out.op = "to_bytes" /\ kt.krb5 = 5 /\ kt.version = 2 =>
        /\ out.ok
        /\ \A r \in {Keytab_from_bytes(out.val)} : r.ok /\ r.val = kt

(***************************************************************************)
(* ccache.py: what a credential converts to.                               *)
(***************************************************************************)
S_krb5tgs == <<36, 107, 114, 98, 53, 116, 103, 115, 36>>     \* "$krb5tgs$"
S_spn == <<36, 115, 112, 110, 42, 36>>                       \* "$spn*$"
AES256_CTS_HMAC_SHA1_96 == 18

\* seq[i], the list index of Python: IndexError outside the list
list_index(seq, i) == IF i < Len(seq) THEN Ok(seq[i + 1]) ELSE Raise("IndexError")

\* to_hash with the AES256 checksum taken from the front of the ciphertext,
\* which C7 tells from the code
Credential_to_hash_front(c) ==
    Then(Ticket_load(CCACHEOctetString_to_asn1(c.ticket)), LAMBDA res :
    Then(IF Len(res.val.sname.name_string) = 1
         THEN list_index(res.val.sname.name_string, 0)
         ELSE list_index(res.val.sname.name_string, 1), LAMBDA tgs_name_string :
    IF res.val.enc_part.etype = AES256_CTS_HMAC_SHA1_96
    THEN Ok(S_krb5tgs \o int_str(res.val.enc_part.etype)
            \o <<36>> \o tgs_name_string.val
            \o <<36>> \o res.val.realm
            \o <<36>> \o as_hex(PySliceTo(res.val.enc_part.cipher, 12))
            \o <<36>> \o as_hex(PySliceFrom(res.val.enc_part.cipher, 12)))
    ELSE Ok(S_krb5tgs \o int_str(res.val.enc_part.etype)
            \o <<36, 42>> \o tgs_name_string.val
            \o <<36>> \o res.val.realm
            \o S_spn \o as_hex(PySliceTo(res.val.enc_part.cipher, 16))
            \o <<36>> \o as_hex(PySliceFrom(res.val.enc_part.cipher, 16)))))

\* Credential.to_hash
Credential_to_hash(c) ==
    Then(Ticket_load(CCACHEOctetString_to_asn1(c.ticket)), LAMBDA res :
    Then(IF Len(res.val.sname.name_string) = 1
         THEN list_index(res.val.sname.name_string, 0)
         ELSE list_index(res.val.sname.name_string, 1), LAMBDA tgs_name_string :
    IF res.val.enc_part.etype = AES256_CTS_HMAC_SHA1_96
    THEN Ok(S_krb5tgs \o int_str(res.val.enc_part.etype)
            \o <<36>> \o tgs_name_string.val
            \o <<36>> \o res.val.realm
            \o <<36>> \o as_hex(PySliceFrom(res.val.enc_part.cipher, -12))
            \o <<36>> \o as_hex(PySliceTo(res.val.enc_part.cipher, -12)))
    ELSE Ok(S_krb5tgs \o int_str(res.val.enc_part.etype)
            \o <<36, 42>> \o tgs_name_string.val
            \o <<36>> \o res.val.realm
            \o S_spn \o as_hex(PySliceTo(res.val.enc_part.cipher, 16))
            \o <<36>> \o as_hex(PySliceFrom(res.val.enc_part.cipher, 16)))))

\* to_tgt letting the ValueError of the decoder through, which C9 tells from
\* the code
Credential_to_tgt_uncaught(c) ==
    Then(Ticket_load(CCACHEOctetString_to_asn1(c.ticket)), LAMBDA ticket :
    Ok([tgt_rep |-> [pvno |-> 5, msg_typ |-> 11,
                     crealm |-> CCACHEOctetString_to_string(c.server.realm),
                     cname |-> CCACHEPrincipal_to_asn1(c.client).principal,
                     ticket |-> ticket.val,
                     enc_par |-> [etype |-> 1, cipher |-> <<>>]],
        key |-> Keyblock_to_asn1(c.key)]))

\* Credential.to_tgt: a ticket that does not decode is a MalformedTicket
Credential_to_tgt(c) ==
    Let(Ticket_load(CCACHEOctetString_to_asn1(c.ticket)), LAMBDA ticket :
    IF ~ticket.ok THEN Raise("MalformedTicket")
    ELSE Ok([tgt_rep |-> [pvno |-> 5, msg_typ |-> 11,
                          crealm |-> CCACHEOctetString_to_string(c.server.realm),
                          cname |-> CCACHEPrincipal_to_asn1(c.client).principal,
                          ticket |-> ticket.val,
                          enc_par |-> [etype |-> 1, cipher |-> <<>>]],
             key |-> Keyblock_to_asn1(c.key)]))

\* hashlib.sha1(data).hexdigest()[:8]: eight hex digits that depend on data
\* (a stand-in digest of four bytes)
RECURSIVE ByteSum(_)
ByteSum(data) == IF data = <<>> THEN 0 ELSE (Head(data) + ByteSum(Tail(data))) % 256
sha1_hexdigest(data) ==
    as_hex(<<ByteSum(data), Len(data) % 256,
             IF data = <<>> THEN 0 ELSE data[1],
             IF data = <<>> THEN 0 ELSE data[Len(data)]>>)

\* a ticket-info entry that always carries authtime, which C10 tells from
\* the code
Credential_krbcredinfo_authtime(c) ==
    [key |-> Keyblock_to_asn1(c.key),
     prealm |-> CCACHEOctetString_to_string(c.client.realm),
     pname |-> CCACHEPrincipal_to_asn1(c.client).principal,
     flags |-> TicketFlags_from_int(c.tktflags),
     authtime |-> datetime_fromtimestamp(c.time.authtime),
     starttime |-> datetime_fromtimestamp(c.time.starttime),
     endtime |-> datetime_fromtimestamp(c.time.endtime),
     srealm |-> CCACHEOctetString_to_string(c.server.realm),
     sname |-> CCACHEPrincipal_to_asn1(c.server).principal]
    @@ (IF c.time.renew_till # 0
        THEN [renew_till |-> datetime_fromtimestamp(c.time.authtime)] ELSE <<>>)

\* the ticket-info entry to_kirbi fills in, as the dict krbcredinfo
Credential_krbcredinfo(c) ==
    [key |-> Keyblock_to_asn1(c.key),
     prealm |-> CCACHEOctetString_to_string(c.client.realm),
     pname |-> CCACHEPrincipal_to_asn1(c.client).principal,
     flags |-> TicketFlags_from_int(c.tktflags),
     starttime |-> datetime_fromtimestamp(c.time.starttime),
     endtime |-> datetime_fromtimestamp(c.time.endtime),
     srealm |-> CCACHEOctetString_to_string(c.server.realm),
     sname |-> CCACHEPrincipal_to_asn1(c.server).principal]
    @@ (IF c.time.authtime # 0
        THEN [authtime |-> datetime_fromtimestamp(c.time.authtime)] ELSE <<>>)
    @@ (IF c.time.renew_till # 0
        THEN [renew_till |-> datetime_fromtimestamp(c.time.authtime)] ELSE <<>>)

\* Credential.to_kirbi: the KRB-CRED and the file name
Credential_to_kirbi(c) ==
    Then(Ticket_load(CCACHEOctetString_to_asn1(c.ticket)), LAMBDA ticket :
    Ok([kirbi |-> [pvno |-> 5, msg_type |-> 22,
                   tickets |-> <<ticket.val>>,
                   enc_part |-> [etype |-> 0,
                                 cipher |-> EncKrbCredPart_dump(
                                     [ticket_info |-> <<Credential_krbcredinfo(c)>>])]],
        filename |-> CCACHEPrincipal_to_string(c.client) \o <<64>>
                     \o CCACHEPrincipal_to_string(c.server) \o <<95>>
                     \o PySliceTo(sha1_hexdigest(CCACHEOctetString_to_asn1(c.ticket)), 8)]))

\* CCACHE.get_all_tgt
RECURSIVE CCACHE_get_all_tgt_loop(_, _)
CCACHE_get_all_tgt_loop(credentials, tgts) ==
    IF credentials = <<>> THEN Ok(tgts)
    ELSE IF str_find(str_lower(CCACHEPrincipal_to_string(Head(credentials).server)),
                     S_krbtgt) # -1
    THEN Let(Credential_to_tgt(Head(credentials)), LAMBDA tgt :
             IF tgt.ok THEN CCACHE_get_all_tgt_loop(Tail(credentials), Append(tgts, tgt.val))
             ELSE IF tgt.exc = "MalformedTicket"
             THEN CCACHE_get_all_tgt_loop(Tail(credentials), tgts)
             ELSE tgt)
    ELSE CCACHE_get_all_tgt_loop(Tail(credentials), tgts)

CCACHE_get_all_tgt(c) == CCACHE_get_all_tgt_loop(c.credentials, <<>>)

\* CCACHE.get_hashes
RECURSIVE CCACHE_get_hashes_loop(_, _, _)
CCACHE_get_hashes_loop(credentials, all_hashes, hashes) ==
    IF credentials = <<>> THEN Ok(hashes)
    ELSE Let(Ticket_load(CCACHEOctetString_to_asn1(Head(credentials).ticket)), LAMBDA res :
         IF ~res.ok THEN CCACHE_get_hashes_loop(Tail(credentials), all_hashes, hashes)
         ELSE IF res.val.enc_part.etype = 23 \/ all_hashes = TRUE
         THEN Then(Credential_to_hash(Head(credentials)), LAMBDA h :
                   CCACHE_get_hashes_loop(Tail(credentials), all_hashes,
                                          Append(hashes, h.val)))
         ELSE CCACHE_get_hashes_loop(Tail(credentials), all_hashes, hashes))

CCACHE_get_hashes(c, all_hashes) == CCACHE_get_hashes_loop(c.credentials, all_hashes, <<>>)

(***************************************************************************)
(* Querying a container: hashes, TGTs and kirbi files of the credentials   *)
(* of a parsed cache.                                                      *)
(***************************************************************************)
\* what a configuration entry of a cache carries where a ticket should be
ConfigEntryTicket == <<121, 101, 115>>                       \* "yes"

\* a credential of a parsed file
FileCredentialOf(names, ticket, authtime, renew_till) ==
    [client |-> CCACHEPrincipal_from_asn1(PrincipalName(1, <<S_al>>), S_CORP),
     server |-> CCACHEPrincipal_from_asn1(PrincipalName(2, names), S_CORP),
     key |-> Keyblock_from_asn1([keytype |-> 23, keyvalue |-> <<7, 200>>]),
     time |-> [authtime |-> authtime, starttime |-> 6,
               endtime |-> 86400, renew_till |-> renew_till],
     is_skey |-> 0, tktflags |-> TicketFlags_to_int({1, 8}),
     num_address |-> 0, addrs |-> <<>>,
     num_authdata |-> 0, authdata |-> <<>>,
     ticket |-> CCACHEOctetString_from_asn1(ticket),
     second_ticket |-> CCACHEOctetString_empty]

CCACHEOf(credentials) == [CCACHE_new(FALSE) EXCEPT !.credentials = credentials]

\* server names that hold 'krbtgt' in some case, across two components, or not
ServerNames == { <<S_krbtgt, S_CORP>>, <<S_KrbTgt>>, <<S_krb, S_tgt>>, <<S_cifs, S_fs>> }

\* tickets that do not decode, of RC4 and of AES256, and one whose service
\* name has no component
ListedTickets ==
    { ConfigEntryTicket,
      Ticket_dump(TicketOf(23, <<S_cifs, S_fs>>, 3)),
      Ticket_dump(TicketOf(AES256_CTS_HMAC_SHA1_96, <<S_krbtgt>>, 2)),
      Ticket_dump(TicketOf(23, <<>>, 1)) }

ListedCredentials ==
    { FileCredentialOf(names, ticket, 5, 0) : names \in ServerNames, ticket \in ListedTickets }

RECURSIVE ListsUpTo(_, _)
ListsUpTo(S, n) ==
    IF n = 0 THEN {<<>>}
    ELSE ListsUpTo(S, n - 1)
         \cup { Append(l, x) : l \in { m \in ListsUpTo(S, n - 1) : Len(m) = n - 1 }, x \in S }

\* service names of no component up to MaxComponents components
ComponentsOf(n) == SubSeq(<<S_cifs, S_fs, S_al, S_corp, S_tgt, S_krb>>, 1, n)

SingleTickets ==
    { Ticket_dump(TicketOf(etype, ComponentsOf(k), n)) :
          etype \in {17, AES256_CTS_HMAC_SHA1_96, 23},
          k \in 0..MaxComponents, n \in 0..MaxCipherLen }

Timestamps == {0, 5, 90000}

InitQuery ==
    /\ cc \in { CCACHEOf(l) : l \in ListsUpTo(ListedCredentials, MaxCreds) }
              \cup { CCACHEOf(<<FileCredentialOf(<<S_cifs, S_fs>>, ticket, 5, 0)>>) :
                         ticket \in SingleTickets }
              \cup { CCACHEOf(<<FileCredentialOf(<<S_krbtgt, S_CORP>>,
                                  Ticket_dump(TicketOf(23, <<S_krbtgt, S_CORP>>, 2)),
                                  authtime, renew_till)>>) :
                         authtime \in Timestamps, renew_till \in Timestamps }
    /\ out = NoResult
    /\ buf = <<>>
    /\ kt = NoneObject

Queried(op, arg, r) ==
    /\ out.op = "none"
    /\ out' = ResultOf(op, arg, r)
    /\ UNCHANGED <<cc, buf, kt>>

\* cc.get_hashes(all_hashes); arg is 1 for all_hashes = True
GetHashes ==
    \E all_hashes \in BOOLEAN :
        \E r \in {CCACHE_get_hashes(cc, all_hashes)} :
            Queried("get_hashes", IF all_hashes THEN 1 ELSE 0, r)

\* cc.get_all_tgt()
GetAllTgt == \E r \in {CCACHE_get_all_tgt(cc)} : Queried("get_all_tgt", 0, r)

\* cc.credentials[i - 1].to_hash()
ToHash ==
    \E i \in 1..Len(cc.credentials) :
        \E r \in {Credential_to_hash(cc.credentials[i])} : Queried("to_hash", i, r)

\* cc.credentials[i - 1].to_tgt()
ToTgt ==
    \E i \in 1..Len(cc.credentials) :
        \E r \in {Credential_to_tgt(cc.credentials[i])} : Queried("to_tgt", i, r)

\* cc.credentials[i - 1].to_kirbi()
ToKirbi ==
    \E i \in 1..Len(cc.credentials) :
        \E r \in {Credential_to_kirbi(cc.credentials[i])} : Queried("to_kirbi", i, r)

NextQuery == GetHashes \/ GetAllTgt \/ ToHash \/ ToTgt \/ ToKirbi

SpecQuery == InitQuery /\ [][NextQuery]_vars

(***************************************************************************)
(* Reading a hash string back: its '$'-separated fields and the bytes of   *)
(* its hex fields.                                                         *)
(***************************************************************************)
RECURSIVE Split(_, _)
Split(s, sep) ==
    IF \A i \in 1..Len(s) : s[i] # sep THEN <<s>>
    ELSE LET i == CHOOSE k \in 1..Len(s) : s[k] = sep /\ \A m \in 1..(k - 1) : s[m] # sep
         IN  <<SubSeq(s, 1, i - 1)>> \o Split(SubSeq(s, i + 1, Len(s)), sep)

HexValue(ch) == IF ch < 58 THEN ch - 48 ELSE ch - 87
Unhex(h) == [i \in 1..(Len(h) \div 2) |-> HexValue(h[2 * i - 1]) * 16 + HexValue(h[2 * i])]

S_18 == <<49, 56>>                               \* "18"
HashIsAES256(fields) == fields[3] = S_18
HashChecksum(fields) == Unhex(fields[Len(fields) - 1])
HashData(fields) == Unhex(fields[Len(fields)])
HashName(fields) == IF HashIsAES256(fields) THEN fields[4] ELSE Tail(fields[4])
\* the ciphertext a hash string was cut from
HashCipher(fields) ==
    IF HashIsAES256(fields) THEN HashData(fields) \o HashChecksum(fields)
    ELSE HashChecksum(fields) \o HashData(fields)

Decoded(c) == Ticket_load(c.ticket.data)

\* the credentials get_hashes is to report, in cache order
HashedCredentials(credentials, all_hashes) ==
    SelectSeq(credentials,
              LAMBDA c : Decoded(c).ok
                         /\ (all_hashes \/ Decoded(c).val.enc_part.etype = 23))

\* C6: get_hashes never fails over a credential whose ticket does not
\* decode; it returns one hash per credential whose ticket decodes and
\* whose encryption type is 23 (per decodable credential when all_hashes is
\* true), in cache order.
C6_GetHashesOnePerDecodable ==
    out.op = "get_hashes" =>
        /\ out.ok
        /\ \A sel \in {HashedCredentials(cc.credentials, out.arg = 1)} :
               /\ Len(out.val) = Len(sel)
               /\ \A k \in 1..Len(sel) :
                      HashCipher(Split(out.val[k], 36)) = Decoded(sel[k]).val.enc_part.cipher

\* C7: to_hash splits the ciphertext by encryption type.  For AES256 (18)
\* the checksum is the last 12 bytes, the data what precedes them, and the
\* string is $krb5tgs$<etype>$<name>$<realm>$<checksum>$<data>; otherwise
\* the checksum is the first 16 bytes, the data the rest, and the string is
\* $krb5tgs$<etype>$*<name>$<realm>$spn*$<checksum>$<data>.  Either way
\* checksum and data together are exactly the ciphertext.
C7_ChecksumAndDataSplit ==
    out.op = "to_hash" /\ out.ok =>
        \A t \in {Decoded(cc.credentials[out.arg]).val} :
        \A f \in {Split(out.val, 36)} :
        \A n \in {Len(t.enc_part.cipher)} :
        \A name \in {IF Len(t.sname.name_string) = 1 THEN t.sname.name_string[1]
                     ELSE t.sname.name_string[2]} :
            /\ f[1] = <<>>
            /\ f[2] = SubSeq(S_krb5tgs, 2, 8)
            /\ f[3] = int_str(t.enc_part.etype)
            /\ IF t.enc_part.etype = 18
               THEN /\ Len(f) = 7
                    /\ f[4] = name
                    /\ f[5] = t.realm
                    /\ Unhex(f[6]) = SubSeq(t.enc_part.cipher, Max(n - 12, 0) + 1, n)
                    /\ Unhex(f[7]) = SubSeq(t.enc_part.cipher, 1, Max(n - 12, 0))
                    /\ f[6] = as_hex(Unhex(f[6])) /\ f[7] = as_hex(Unhex(f[7]))
                    /\ Unhex(f[7]) \o Unhex(f[6]) = t.enc_part.cipher
               ELSE /\ Len(f) = 8
                    /\ f[4] = <<42>> \o name
                    /\ f[5] = t.realm
                    /\ f[6] = SubSeq(S_spn, 2, 5)
                    /\ Unhex(f[7]) = SubSeq(t.enc_part.cipher, 1, Min(16, n))
                    /\ Unhex(f[8]) = SubSeq(t.enc_part.cipher, Min(16, n) + 1, n)
                    /\ f[7] = as_hex(Unhex(f[7])) /\ f[8] = as_hex(Unhex(f[8]))
                    /\ Unhex(f[7]) \o Unhex(f[8]) = t.enc_part.cipher

\* an AES256 ticket whose ciphertext is longer than both checksum lengths
\* has been hashed
C7_Witness ==
    /\ out.op = "to_hash" /\ out.ok
    /\ Decoded(cc.credentials[out.arg]).val.enc_part.etype = 18
    /\ Len(Decoded(cc.credentials[out.arg]).val.enc_part.cipher) > 16

\* C8: to_hash resolves the display name of every decodable ticket: the
\* sole component when there is exactly one, the component at index 1
\* otherwise; it yields a name for any number of service-name components.
C8_DisplayNameForAnyComponents ==
    out.op = "to_hash" =>
        \A t \in {Decoded(cc.credentials[out.arg])} :
            t.ok =>
                /\ out.ok
                /\ HashName(Split(out.val, 36)) =
                       IF Len(t.val.sname.name_string) = 1
                       THEN t.val.sname.name_string[1]
                       ELSE t.val.sname.name_string[2]

\* the server string holds 'krbtgt' in some case
IsKrbtgt(c) ==
    \E i \in 1..(Len(CCACHEPrincipal_to_string(c.server)) - 5) :
        str_lower(SubSeq(CCACHEPrincipal_to_string(c.server), i, i + 5)) = S_krbtgt

\* C9: get_all_tgt returns one (AS-REP, session key) tuple for each
\* credential whose server string holds 'krbtgt' in any case and whose
\* ticket decodes.  to_tgt raises MalformedTicket for a ticket that does
\* not decode, and get_all_tgt skips that credential.
C9_TgtsOfKrbtgtSkipMalformed ==
    /\ out.op = "to_tgt" =>
           IF Decoded(cc.credentials[out.arg]).ok
           THEN out.ok /\ out.val.tgt_rep.ticket = Decoded(cc.credentials[out.arg]).val
           ELSE ~out.ok /\ out.exc = "MalformedTicket"
    /\ out.op = "get_all_tgt" =>
           /\ out.ok
           /\ \A sel \in {SelectSeq(cc.credentials,
                                    LAMBDA c : IsKrbtgt(c) /\ Decoded(c).ok)} :
                  /\ Len(out.val) = Len(sel)
                  /\ \A k \in 1..Len(sel) :
                         /\ out.val[k].tgt_rep.ticket = Decoded(sel[k]).val
                         /\ out.val[k].tgt_rep.msg_typ = 11
                         /\ out.val[k].key = [keytype |-> sel[k].key.keytype,
                                              keyvalue |-> sel[k].key.keyvalue]

\* get_all_tgt has passed over a krbtgt credential whose ticket does not
\* decode and returned the TGT of the other credential
C9_Witness ==
    /\ out.op = "get_all_tgt" /\ out.ok
    /\ Len(cc.credentials) = 2
    /\ IsKrbtgt(cc.credentials[1]) /\ ~Decoded(cc.credentials[1]).ok
    /\ Len(out.val) = 1

\* C10: in the ticket-info entry to_kirbi writes, authtime is present
\* exactly when the credential's authtime is non-zero, renew-till exactly
\* when its renew_till is non-zero, and starttime and endtime always.
C10_OptionalTimesOmittedWhenZero ==
    out.op = "to_kirbi" /\ out.ok =>
        \A info \in {EncKrbCredPart_load(out.val.kirbi.enc_part.cipher).ticket_info[1]} :
        \A time \in {cc.credentials[out.arg].time} :
            /\ "authtime" \in DOMAIN info <=> time.authtime # 0
            /\ "renew_till" \in DOMAIN info <=> time.renew_till # 0
            /\ "starttime" \in DOMAIN info
            /\ "endtime" \in DOMAIN info
            /\ info.starttime = datetime_fromtimestamp(time.starttime)
            /\ info.endtime = datetime_fromtimestamp(time.endtime)

\* a credential with no authtime and a renew_till has been exported
C10_Witness ==
    /\ out.op = "to_kirbi" /\ out.ok
    /\ cc.credentials[out.arg].time.authtime = 0
    /\ cc.credentials[out.arg].time.renew_till # 0

\* C11: every timestamp to_kirbi includes in the ticket-info entry carries
\* the credential's own field: authtime from authtime, starttime from
\* starttime, endtime from endtime and renew-till from renew_till, also
\* when authtime and renew_till differ.
C11_TimesCarryOwnField ==
    out.op = "to_kirbi" /\ out.ok =>
        \A info \in {EncKrbCredPart_load(out.val.kirbi.enc_part.cipher).ticket_info[1]} :
        \A time \in {cc.credentials[out.arg].time} :
            /\ "authtime" \in DOMAIN info =>
                   info.authtime = datetime_fromtimestamp(time.authtime)
            /\ info.starttime = datetime_fromtimestamp(time.starttime)
            /\ info.endtime = datetime_fromtimestamp(time.endtime)
            /\ "renew_till" \in DOMAIN info =>
                   info.renew_till = datetime_fromtimestamp(time.renew_till)

(***************************************************************************)
(* Writing the credentials of a container to a directory of kirbi files.   *)
(***************************************************************************)
S_dotdot == <<46, 46>>                           \* ".."
S_bang == <<33>>                                 \* "!"
S_kirbi == <<46, 107, 105, 114, 98, 105>>        \* ".kirbi"
S_cwd == <<47, 119>>                             \* "/w", the working directory

\* s.replace(old, new): the occurrences of old, found left to right without
\* overlap, become new
RECURSIVE str_replace(_, _, _)
str_replace(s, old, new) ==
    IF Len(s) < Len(old) THEN s
    ELSE IF SubSeq(s, 1, Len(old)) = old
    THEN new \o str_replace(SubSeq(s, Len(old) + 1, Len(s)), old, new)
    ELSE <<Head(s)>> \o str_replace(Tail(s), old, new)

\* os.path.join(a, b) on POSIX: an absolute b discards a
os_path_join(a, b) ==
    IF b # <<>> /\ b[1] = 47 THEN b
    ELSE IF a = <<>> \/ a[Len(a)] = 47 THEN a \o b
    ELSE a \o <<47>> \o b

\* os.path.abspath(path), for a path with no '.', '..' or empty segment
os_path_abspath(path) ==
    IF path # <<>> /\ path[1] = 47 THEN path ELSE os_path_join(S_cwd, path)

\* a file name kept as to_kirbi made it, which C12 tells from the code
kirbidir_filename_kept(filename) == filename \o S_kirbi

\* '%s.kirbi' % filename.replace('..', '!')
kirbidir_filename(filename) == str_replace(filename, S_dotdot, S_bang) \o S_kirbi

\* the loop of CCACHE.to_kirbidir: the files opened for writing, and what
\* the call raised
RECURSIVE CCACHE_to_kirbidir_loop(_, _, _)
CCACHE_to_kirbidir_loop(credentials, kf_abs, files) ==
    IF credentials = <<>> THEN [files |-> files, exc |-> ""]
    ELSE Let(Credential_to_kirbi(Head(credentials)), LAMBDA r :
         IF ~r.ok THEN [files |-> files, exc |-> r.exc]
         ELSE CCACHE_to_kirbidir_loop(
                  Tail(credentials), kf_abs,
                  Append(files,
                         [filename |-> kirbidir_filename(r.val.filename),
                          filepath |-> os_path_join(kf_abs,
                                                    kirbidir_filename(r.val.filename)),
                          kirbi |-> r.val.kirbi])))

CCACHE_to_kirbidir(c, directory_path) ==
    CCACHE_to_kirbidir_loop(c.credentials, os_path_abspath(directory_path), <<>>)

\* principal components with runs of dots and with slashes
S_dot == <<46>>
S_dot3 == <<46, 46, 46>>
S_dot4 == <<46, 46, 46, 46>>
S_up_etc == <<46, 46, 47, 46, 46, 47, 101>>      \* "../../e"
S_slash_x == <<47, 120>>                         \* "/x"
S_x_slash_y == <<120, 47, 121>>                  \* "x/y"

ExportClientNames ==
    { <<S_al>>, <<S_dot>>, <<S_dotdot>>, <<S_dot3>>, <<S_dot4>>, <<S_up_etc>>,
      <<S_slash_x>>, <<S_x_slash_y>>, <<S_dot, S_dot>> }
ExportServerNames == { <<S_cifs, S_fs>>, <<S_dot3, S_dot>>, <<S_slash_x>> }

ExportCredentialOf(cnames, snames, ticket) ==
    [FileCredentialOf(snames, ticket, 5, 0) EXCEPT
         !.client = CCACHEPrincipal_from_asn1(PrincipalName(1, cnames), S_CORP)]

ExportCredentials ==
    { ExportCredentialOf(cnames, snames, Ticket_dump(TicketOf(23, snames, 2))) :
          cnames \in ExportClientNames, snames \in ExportServerNames }
    \cup { ExportCredentialOf(<<S_al>>, <<S_cifs, S_fs>>, ConfigEntryTicket) }

\* an absolute and a relative target directory
TargetDirs == << <<47, 116>>, <<107>> >>         \* "/t", "k"

InitExport ==
    /\ cc \in { CCACHEOf(l) : l \in ListsUpTo(ExportCredentials, MaxCreds) }
    /\ out = NoResult
    /\ buf = <<>>
    /\ kt = NoneObject

\* cc.to_kirbidir(TargetDirs[d])
ToKirbidir ==
    /\ out.op = "none"
    /\ \E d \in 1..Len(TargetDirs) :
       \E r \in {CCACHE_to_kirbidir(cc, TargetDirs[d])} :
           out' = [op |-> "to_kirbidir", arg |-> d, ok |-> r.exc = "",
                   exc |-> r.exc, val |-> r.files]
    /\ UNCHANGED <<cc, buf, kt>>

\* cc.credentials[i - 1].to_kirbi(), the name before to_kirbidir cleans it
ExportToKirbi ==
    /\ out.op = "none"
    /\ \E i \in 1..Len(cc.credentials) :
       \E r \in {Credential_to_kirbi(cc.credentials[i])} :
           out' = ResultOf("to_kirbi", i, r)
    /\ UNCHANGED <<cc, buf, kt>>

NextExport == ToKirbidir \/ ExportToKirbi

SpecExport == InitExport /\ [][NextExport]_vars

\* s holds sub somewhere
Contains(s, sub) ==
    \E i \in 1..(Len(s) - Len(sub) + 1) : SubSeq(s, i, i + Len(sub) - 1) = sub

\* every pair of dots, taken from the left, turned into '!'
RECURSIVE DotPairsToBang(_)
DotPairsToBang(s) ==
    IF Len(s) >= 2 /\ s[1] = 46 /\ s[2] = 46
    THEN <<33>> \o DotPairsToBang(SubSeq(s, 3, Len(s)))
    ELSE IF s = <<>> THEN <<>>
    ELSE <<s[1]>> \o DotPairsToBang(Tail(s))

\* '<client string>@<server string>_<first 8 hex digits of the SHA-1>'
KirbiName(c) ==
    CCACHEPrincipal_to_string(c.client) \o <<64>>
    \o CCACHEPrincipal_to_string(c.server) \o <<95>>
    \o SubSeq(sha1_hexdigest(c.ticket.data), 1, 8)

\* C12: the file name a credential is written under is
\* '<client string>@<server string>_<first 8 hex chars of the ticket's
\* SHA-1>' with every '..' replaced by '!' (and the extension .kirbi), and
\* whatever the principal components hold ('..', '...', '....' included)
\* the name used contains no '..'.
C12_FileNameHasNoDotDot ==
    /\ out.op = "to_kirbi" /\ out.ok =>
           out.val.filename = KirbiName(cc.credentials[out.arg])
    /\ out.op = "to_kirbidir" =>
           \A k \in 1..Len(out.val) :
               /\ out.val[k].filename =
                      DotPairsToBang(KirbiName(cc.credentials[k])) \o S_kirbi
               /\ ~Contains(out.val[k].filename, S_dotdot)

\* a credential whose client string is '...' has been written
C12_Witness ==
    /\ out.op = "to_kirbidir" /\ Len(out.val) = 2
    /\ CCACHEPrincipal_to_string(cc.credentials[2].client) = S_dot3
    /\ Contains(CCACHEPrincipal_to_string(cc.credentials[1].client), S_dotdot)

\* the target directories as absolute paths
AbsoluteTargetDirs == << <<47, 116>>, <<47, 119, 47, 107>> >>    \* "/t", "/w/k"

\* C19: every file to_kirbidir writes lies inside the target directory:
\* whatever the client and server components hold, components with '/' or
\* a leading '/' included, the path joined from the directory and the
\* cleaned file name has the directory as a prefix and no '..' segment.
C19_FilesInsideTargetDirectory ==
    out.op = "to_kirbidir" =>
        \A k \in 1..Len(out.val) :
        \A dir \in {AbsoluteTargetDirs[out.arg] \o <<47>>} :
            /\ Len(out.val[k].filepath) > Len(dir)
            /\ SubSeq(out.val[k].filepath, 1, Len(dir)) = dir
            /\ \A f \in {Split(out.val[k].filepath, 47)} :
                   \A i \in 1..Len(f) : f[i] # S_dotdot

(***************************************************************************)
(* What an add call does to the container.                                 *)
(***************************************************************************)
AddOps == {"add_tgt", "add_tgs", "add_kirbi"}

\* the principal record of a name and a realm
PrincipalRecord(name, realm) ==
    [name_type |-> name.name_type,
     num_components |-> Len(name.name_string),
     realm |-> [length |-> Len(realm), data |-> realm],
     components |-> [i \in 1..Len(name.name_string) |->
                        [length |-> Len(name.name_string[i]),
                         data |-> name.name_string[i]]]]

\* C13: after add_tgt, add_tgs or add_kirbi the primary principal is the
\* new credential's client principal when the override flag is true and is
\* what it was before the call when the flag is false; with the flag
\* omitted add_tgt and add_kirbi override and add_tgs does not.
C13_OverridePrimaryPrincipal ==
    [][out'.op \in AddOps =>
          IF out'.arg.override_pp = "True"
             \/ (out'.arg.override_pp = "omitted" /\ out'.op \in {"add_tgt", "add_kirbi"})
          THEN /\ cc'.primary_principal = PrincipalRecord(out'.arg.cname, out'.arg.crealm)
               /\ out'.ok =>
                      cc'.primary_principal = cc'.credentials[Len(cc'.credentials)].client
          ELSE cc'.primary_principal = cc.primary_principal]_vars

\* add_tgs without the flag has left a primary principal that is not the
\* client of the credential it appended
C13_Witness ==
    /\ out.op = "add_tgs" /\ out.ok
    /\ out.arg.override_pp = "omitted"
    /\ cc.primary_principal # cc.credentials[Len(cc.credentials)].client

\* the text of the components of a principal, in order
ComponentTexts(p) == [i \in 1..Len(p.components) |-> p.components[i].data]

\* a and b are the same text when the case of letters is ignored
SameIgnoringCase(a, b) == str_lower(a) = str_lower(b)

LastCredential(c) == c.credentials[Len(c.credentials)]

\* C14: add_kirbi, and from_kirbi through it, drops the last server name
\* component exactly when the name has more than 2 components and the last
\* one equals the server realm ignoring case; otherwise (a 2-component name
\* ending in the realm included) the credential's server principal has the
\* components of the input, in order.
C14_TrimRealmFromLongServerName ==
    out.op \in {"add_kirbi", "from_kirbi"} /\ out.ok =>
        \A names \in {out.arg.enc.sname.name_string} :
            ComponentTexts(LastCredential(cc).server) =
                IF Len(names) > 2 /\ SameIgnoringCase(names[Len(names)], out.arg.enc.srealm)
                THEN SubSeq(names, 1, Len(names) - 1)
                ELSE names

\* a name of three components ending in the realm in another case has been
\* added and has two components in the cache
C14_Witness ==
    /\ out.op = "add_kirbi" /\ out.ok
    /\ Len(out.arg.enc.sname.name_string) = 3
    /\ out.arg.enc.sname.name_string[3] # out.arg.enc.srealm
    /\ LastCredential(cc).server.num_components = 2

\* C16: an add_tgt, add_tgs or add_kirbi that succeeds appends exactly one
\* credential at the end of the list and leaves the version, the headers
\* and the credentials held before unchanged and in order; the list holds
\* one credential per call in call order, and to_bytes emits them in that
\* order.
C16_AppendsOneAtTheEnd ==
    /\ [][out'.op \in AddOps /\ out'.ok =>
             /\ cc'.file_format_version = cc.file_format_version
             /\ cc'.headers = cc.headers
             /\ Len(cc'.credentials) = Len(cc.credentials) + 1
             /\ SubSeq(cc'.credentials, 1, Len(cc.credentials)) = cc.credentials
             /\ LastCredential(cc').client = PrincipalRecord(out'.arg.cname, out'.arg.crealm)
             /\ LastCredential(cc').server.realm.data = out'.arg.enc.srealm]_vars
    /\ [](out.op = "to_bytes" /\ out.ok =>
             \A body \in {Concat([i \in 1..Len(cc.credentials) |->
                                     Credential_to_bytes(cc.credentials[i])])} :
                 /\ Len(out.val) >= Len(body)
                 /\ SubSeq(out.val, Len(out.val) - Len(body) + 1, Len(out.val)) = body)

\* two different credentials have been added and serialized
C16_Witness ==
    /\ out.op = "to_bytes" /\ out.ok
    /\ Len(cc.credentials) = 2
    /\ cc.credentials[1].client # cc.credentials[2].client

\* the epoch seconds of a time of a reply, 0 for an absent one
EpochOrZero(dt) == IF dt = NoneObject THEN 0 ELSE dt.days * 86400 + dt.seconds

\* C18: given a structure in which an optional time (authtime, starttime or
\* renew-till) is absent, add_tgt, add_tgs and add_kirbi succeed and the
\* appended credential stores 0 in that time field, and the epoch seconds
\* of every present one.
C18_AbsentTimesStoredAsZero ==
    out.op \in AddOps \cup {"from_kirbi"} =>
        /\ out.ok
        /\ LastCredential(cc).time =
               [authtime |-> EpochOrZero(out.arg.enc.authtime),
                starttime |-> EpochOrZero(out.arg.enc.starttime),
                endtime |-> EpochOrZero(out.arg.enc.endtime),
                renew_till |-> EpochOrZero(out.arg.enc.renew_till)]

(***************************************************************************)
(* The header block of a credential-cache file.                            *)
(***************************************************************************)
\* the (tag, len, data) tuples of block from pos on fill it exactly
RECURSIVE TuplesFill(_, _)
TuplesFill(block, pos) ==
    IF pos = Len(block) THEN TRUE
    ELSE IF pos + 4 > Len(block) THEN FALSE
    ELSE IF pos + 4 + unpack_H(SubSeq(block, pos + 3, pos + 4)) > Len(block) THEN FALSE
    ELSE TuplesFill(block, pos + 4 + unpack_H(SubSeq(block, pos + 3, pos + 4)))

RECURSIVE HeadersSize(_)
HeadersSize(headers) ==
    IF headers = <<>> THEN 0 ELSE 4 + Head(headers).taglen + HeadersSize(Tail(headers))

\* the declared length of the header block of a file, and the block
DeclaredHeaderLength(data) == unpack_H(SubSeq(data, 3, 4))
HeaderBlockOf(data) == SubSeq(data, 5, 4 + DeclaredHeaderLength(data))

\* C17: CCACHE.parse accepts a header block only when its (tag, len, data)
\* tuples fill exactly the declared header length: in a parsed container
\* each header's data has its declared len bytes and the sum of 4 + len
\* over the headers is the declared length; a block whose last tuple is cut
\* short makes parse fail with the truncated-record error.
C17_HeaderBlockFilledExactly ==
    out.op = "parse" =>
        /\ out.ok =>
               /\ \A i \in 1..Len(cc.headers) :
                      Len(cc.headers[i].tagdata) = cc.headers[i].taglen
               /\ HeadersSize(cc.headers) = DeclaredHeaderLength(buf)
        /\ (Len(buf) >= 4
            /\ Len(buf) >= 4 + DeclaredHeaderLength(buf)
            /\ ~TuplesFill(HeaderBlockOf(buf), 0)) =>
               ~out.ok /\ out.exc = "EOFError"

(***************************************************************************)
(* Octet strings of both formats: constructors and parsers.                *)
(***************************************************************************)
\* KeytabOctetString.empty and KeytabOctetString.from_asn1
KeytabOctetString_empty == [length |-> 0, data |-> <<>>]
KeytabOctetString_from_asn1(data) == [length |-> Len(as_bytes(data)), data |-> data]

RECURSIVE SeqsUpTo(_, _)
SeqsUpTo(S, n) ==
    IF n = 0 THEN {<<>>}
    ELSE SeqsUpTo(S, n - 1)
         \cup { Append(l, x) : l \in { m \in SeqsUpTo(S, n - 1) : Len(m) = n - 1 }, x \in S }

OctetData == SeqsUpTo({65, 255}, MaxOctets)

\* a length of 4 or of 2 bytes, then the data or less or more than it
OctetBuffers ==
    { pack_I(n) \o d : n \in 0..MaxOctets, d \in OctetData }
    \cup { pack_H(n) \o d : n \in 0..MaxOctets, d \in OctetData }

InitOctet ==
    /\ buf \in OctetBuffers
    /\ out = NoResult
    /\ cc = CCACHE_new(TRUE)
    /\ kt = Keytab_new

OctetResult(op, r) ==
    /\ out.op = "none"
    /\ out' = Result(op, r)
    /\ UNCHANGED <<cc, buf, kt>>

\* CCACHEOctetString.empty(), .from_string(data), .from_asn1(data)
CCACHEOctetConstruct ==
    \/ OctetResult("CCACHEOctetString.empty", Ok(CCACHEOctetString_empty))
    \/ \E data \in OctetData :
           \/ OctetResult("CCACHEOctetString.from_string",
                          Ok(CCACHEOctetString_from_string(data)))
           \/ OctetResult("CCACHEOctetString.from_asn1",
                          Ok(CCACHEOctetString_from_asn1(data)))

\* KeytabOctetString.empty(), .from_string(data), .from_asn1(data)
KeytabOctetConstruct ==
    \/ OctetResult("KeytabOctetString.empty", Ok(KeytabOctetString_empty))
    \/ \E data \in OctetData :
           \/ OctetResult("KeytabOctetString.from_string",
                          Ok(KeytabOctetString_from_string(data)))
           \/ OctetResult("KeytabOctetString.from_asn1",
                          Ok(KeytabOctetString_from_asn1(data)))

\* CCACHEOctetString.parse(EOFReader(io.BytesIO(buf)))
CCACHEOctetParse == OctetResult("CCACHEOctetString.parse", CCACHEOctetString_parse(buf, 0))

\* KeytabOctetString.parse(io.BytesIO(buf))
KeytabOctetParse == OctetResult("KeytabOctetString.parse", KeytabOctetString_parse(buf, 0))

NextOctet ==
    CCACHEOctetConstruct \/ KeytabOctetConstruct \/ CCACHEOctetParse \/ KeytabOctetParse

SpecOctet == InitOctet /\ [][NextOctet]_vars

OctetConstructors ==
    { "CCACHEOctetString.empty", "CCACHEOctetString.from_string",
      "CCACHEOctetString.from_asn1", "KeytabOctetString.empty",
      "KeytabOctetString.from_string", "KeytabOctetString.from_asn1" }

\* C15: every octet string of either format that a parse or a constructor
\* (empty, from_string, from_asn1) produces has length = len(data) as an
\* integer equality: a constructor produces one, and so does the parse of
\* a length followed by at least that many bytes.
C15_OctetStringLengthIsLenOfData ==
    /\ out.op \in OctetConstructors =>
           out.ok /\ out.val.length = Len(out.val.data)
    /\ (out.op = "CCACHEOctetString.parse"
        /\ Len(buf) >= 4 /\ Len(buf) - 4 >= unpack_I(SubSeq(buf, 1, 4))) =>
           /\ out.ok
           /\ out.val.length = Len(out.val.data)
           /\ out.val.data = SubSeq(buf, 5, 4 + unpack_I(SubSeq(buf, 1, 4)))
    /\ (out.op = "KeytabOctetString.parse"
        /\ Len(buf) >= 2 /\ Len(buf) - 2 >= unpack_H(SubSeq(buf, 1, 2))) =>
           /\ out.ok
           /\ out.val.length = Len(out.val.data)
           /\ out.val.data = SubSeq(buf, 3, 2 + unpack_H(SubSeq(buf, 1, 2)))

====
